---------------------------- MODULE Spec2Model ----------------------------
(***************************************************************************)
(* A model of onekp (src/src/main.rs): the record store (OneKp), the       *)
(* rate-limited retrying client (Client), the on-disk response cache       *)
(* (use_cache) and the fetch loop of main (Commands::Fetch).               *)
(*                                                                         *)
(* Strings are sequences of one-character strings, so that starts_with,    *)
(* trim_end_matches and split are computed character by character.         *)
(***************************************************************************)
EXTENDS Integers, Sequences, FiniteSets, TLC

VARIABLES
    links,          \* OneKp.links
    records,        \* OneKp.records
    store_ret,      \* what the last call on the store was and what it returned
    now,            \* the clock (Instant::now, SystemTime::now), in ticks
    interval_time,  \* Client.interval_time, in seconds
    max_retry,      \* Client.max_retry
    last_fetch_time,\* Client.last_fetch_time, in ticks
    get_pc,         \* where Client::get is: idle, loop, wait, ret
    get_url,        \* the url of the call of Client::get
    tries,          \* the iterations of get's loop that are over
    get_ret,        \* what the last call of Client::get returned
    caller,         \* who called Client::get
    calls,          \* the calls made so far by the caller of the component
    sent,           \* history: the requests issued by this call of get
    attempts,       \* history: the responses received by this call of get
    last_req,       \* history: when the latest request was issued (-1: none)
    cache_dir,      \* whether the directory .onekp_cache exists
    cache,          \* the files of .onekp_cache: name -> content and mtime
    uc_pc,          \* where use_cache is: idle, get, ret
    uc_url,         \* the url of the call of use_cache
    uc_ret,         \* what the last call of use_cache returned
    uc_gets,        \* history: the calls of client.get by this call
    uc_pre,         \* history: the cache, the client and the clock at the call
    tsv,            \* main: the data lines of the table, each split at the tabs
    line_i,         \* main: the line the ingestion loop is at
    main_pc,        \* main: ingest, rec, file, get, done, exit
    sequence_type,  \* Commands::Fetch: sequence_type
    selected,       \* Commands::Fetch: onekp.filter(filter_key, filter_values)
    rec_i,          \* Commands::Fetch: the record the loop is at
    file_i,         \* fetch_and_save: the file name its loop is at
    target,         \* the files of rootdir: name -> content
    success_ids,    \* Commands::Fetch: success_ids
    err_ids,        \* Commands::Fetch: err_ids
    outcomes,       \* history: the records fetch_and_save returned for, and how
    saved           \* history: how each file of the record at hand came out

storeVars == <<links, records, store_ret>>

clientVars == <<interval_time, max_retry, last_fetch_time>>

getVars == <<get_pc, get_url, tries, get_ret, caller>>

netVars == <<sent, attempts, last_req>>

cacheVars == <<cache_dir, cache, uc_pc, uc_url, uc_ret, uc_gets, uc_pre>>

fetchVars == <<tsv, line_i, main_pc, sequence_type, selected, rec_i, file_i,
               target, success_ids, err_ids, outcomes, saved>>

vars == <<links, records, store_ret, now, interval_time, max_retry,
          last_fetch_time, get_pc, get_url, tries, get_ret, caller, calls,
          sent, attempts, last_req, cache_dir, cache, uc_pc, uc_url,
          uc_ret, uc_gets, uc_pre, tsv, line_i, main_pc, sequence_type,
          selected, rec_i, file_i, target, success_ids, err_ids, outcomes,
          saved>>

(***************************************************************************)
(* Bounds of the model.                                                    *)
(***************************************************************************)
MaxRecords == 3
\* The ticks of the clock in one second.
TicksPerSec == 2
\* The clock ticks on its own up to here; a sleep moves it further.
MaxTime == 2
\* The configurations of a client: interval_time and max_retry up to these.
MaxInterval == 1
MaxRetry == 2
\* The calls the caller of a component makes.
MaxCalls == 2
\* The remote serves, per url, the contents 1..MaxVersion.
MaxVersion == 2
\* The data lines of the table main ingests.
MaxLines == 2

(***************************************************************************)
(* Strings.                                                                *)
(***************************************************************************)
Range(s) == {s[i] : i \in 1..Len(s)}

\* str::starts_with
starts_with(l, p) == Len(p) <= Len(l) /\ SubSeq(l, 1, Len(p)) = p

\* str::trim_end_matches(c): every trailing c is removed
RECURSIVE trim_end_matches(_, _)
trim_end_matches(s, c) ==
    IF s # <<>> /\ s[Len(s)] = c
    THEN trim_end_matches(SubSeq(s, 1, Len(s) - 1), c)
    ELSE s

\* slice::contains
contains(values, v) == \E i \in 1..Len(values) : values[i] = v

(***************************************************************************)
(* OneKp: the record store.                                                *)
(***************************************************************************)
\* An anchor element of the listing that has no href attribute.
NoHref == "nohref"

\* OneKp::new. table_index is the listing as the sequence of its anchor
\* elements' href attributes in document order (NoHref: no attribute).
new(table_index) ==
    LET hrefs == SelectSeq(table_index, LAMBDA n : n # NoHref)
    IN  [links   |-> [i \in 1..Len(hrefs) |-> trim_end_matches(hrefs[i], "/")],
         records |-> <<>>]

\* A search that keeps the last link that starts with id.
find_last_link(ls, id) ==
    IF \E i \in 1..Len(ls) : starts_with(ls[i], id)
    THEN CHOOSE i \in 1..Len(ls) :
            /\ starts_with(ls[i], id)
            /\ \A j \in (i + 1)..Len(ls) : ~starts_with(ls[j], id)
    ELSE 0

\* Iterator::find over self.links: the index of the first link that starts
\* with id, 0 when there is none.
find_link(ls, id) ==
    IF \E i \in 1..Len(ls) : starts_with(ls[i], id)
    THEN CHOOSE i \in 1..Len(ls) :
            /\ starts_with(ls[i], id)
            /\ \A j \in 1..(i - 1) : ~starts_with(ls[j], id)
    ELSE 0

OneKpRecord(attrs, prefix) ==
    [id          |-> attrs[1],
     clade       |-> attrs[2],
     order       |-> attrs[3],
     family      |-> attrs[4],
     species     |-> attrs[5],
     tissue_type |-> attrs[6],
     prefix      |-> prefix]

\* push_record with the record pushed before the lookup is known to succeed.
push_record_pushes_first(ls, recs, attrs) ==
    LET id == attrs[1]
        k  == find_link(ls, id)
    IN  IF k = 0
        THEN [ok |-> FALSE, records |-> Append(recs, OneKpRecord(attrs, <<>>))]
        ELSE [ok |-> TRUE, records |-> Append(recs, OneKpRecord(attrs, ls[k]))]

\* OneKp::push_record: the Result and the records afterwards.
push_record(ls, recs, attrs) ==
    LET id == attrs[1]
        k  == find_link(ls, id)
    IN  IF k = 0
        THEN [ok |-> FALSE, records |-> recs]
        ELSE [ok |-> TRUE, records |-> Append(recs, OneKpRecord(attrs, ls[k]))]

OneKpKey == {"Id", "Clade", "Order", "Family", "Species", "TissueType"}

\* filter with the Order arm reading the family, as a copied arm would.
filter_copied_arm(recs, key, values) ==
    CASE key = "Id" ->
            SelectSeq(recs, LAMBDA r : contains(values, r.id))
      [] key = "Clade" ->
            SelectSeq(recs, LAMBDA r : contains(values, r.clade))
      [] key = "Order" ->
            SelectSeq(recs, LAMBDA r : contains(values, r.family))
      [] key = "Family" ->
            SelectSeq(recs, LAMBDA r : contains(values, r.family))
      [] key = "Species" ->
            SelectSeq(recs, LAMBDA r : contains(values, r.species))
      [] key = "TissueType" ->
            SelectSeq(recs, LAMBDA r : contains(values, r.tissue_type))

\* OneKp::filter: one arm per key, each keeping the records in order.
filter(recs, key, values) ==
    CASE key = "Id" ->
            SelectSeq(recs, LAMBDA r : contains(values, r.id))
      [] key = "Clade" ->
            SelectSeq(recs, LAMBDA r : contains(values, r.clade))
      [] key = "Order" ->
            SelectSeq(recs, LAMBDA r : contains(values, r.order))
      [] key = "Family" ->
            SelectSeq(recs, LAMBDA r : contains(values, r.family))
      [] key = "Species" ->
            SelectSeq(recs, LAMBDA r : contains(values, r.species))
      [] key = "TissueType" ->
            SelectSeq(recs, LAMBDA r : contains(values, r.tissue_type))

(***************************************************************************)
(* Commands::Show: the distinct values of one field, through a BTreeSet.   *)
(***************************************************************************)
\* The bytes of the characters the tables are written in.
byte(c) ==
    CASE c = " " -> 32
      [] c = "/" -> 47
      [] c = "A" -> 65
      [] c = "B" -> 66
      [] c = "C" -> 67
      [] c = "F" -> 70
      [] c = "N" -> 78
      [] c = "O" -> 79
      [] c = "S" -> 83
      [] c = "T" -> 84
      [] c = "a" -> 97
      [] c = "c" -> 99
      [] c = "d" -> 100
      [] c = "f" -> 102
      [] c = "o" -> 111
      [] c = "s" -> 115
      [] c = "t" -> 116
      [] c = "x" -> 120
      [] c = "z" -> 122

\* Ord for String: the bytes are compared from the left; when one string is
\* the beginning of the other the shorter one is the lesser. -1, 0 or 1.
RECURSIVE cmp(_, _)
cmp(a, b) ==
    IF a = <<>> \/ b = <<>>
    THEN IF Len(a) < Len(b) THEN -1 ELSE IF Len(a) > Len(b) THEN 1 ELSE 0
    ELSE IF byte(a[1]) < byte(b[1]) THEN -1
    ELSE IF byte(a[1]) > byte(b[1]) THEN 1
    ELSE cmp(Tail(a), Tail(b))

\* An insertion that keeps a value that is already there, as a sorted Vec
\* would.
RECURSIVE insert_keeps_equal(_, _)
insert_keeps_equal(set, v) ==
    IF set = <<>> THEN <<v>>
    ELSE IF cmp(v, set[1]) <= 0 THEN <<v>> \o set
    ELSE <<set[1]>> \o insert_keeps_equal(Tail(set), v)

\* BTreeSet::insert, the set being the sequence its iterator yields: v goes
\* before the first greater member, and nowhere when an equal one is there.
RECURSIVE insert(_, _)
insert(set, v) ==
    IF set = <<>> THEN <<v>>
    ELSE IF cmp(v, set[1]) < 0 THEN <<v>> \o set
    ELSE IF cmp(v, set[1]) = 0 THEN set
    ELSE <<set[1]>> \o insert(Tail(set), v)

\* Iterator::collect into a BTreeSet: the values are inserted one by one.
RECURSIVE collect(_, _)
collect(set, values) ==
    IF values = <<>> THEN set
    ELSE collect(insert(set, values[1]), Tail(values))

\* The lines Commands::Show prints: the field key names of every record,
\* one arm per key, collected into a BTreeSet and read in its order.
distinct_values(recs, key) ==
    CASE key = "Id" ->
            collect(<<>>, [i \in 1..Len(recs) |-> recs[i].id])
      [] key = "Clade" ->
            collect(<<>>, [i \in 1..Len(recs) |-> recs[i].clade])
      [] key = "Family" ->
            collect(<<>>, [i \in 1..Len(recs) |-> recs[i].family])
      [] key = "Order" ->
            collect(<<>>, [i \in 1..Len(recs) |-> recs[i].order])
      [] key = "Species" ->
            collect(<<>>, [i \in 1..Len(recs) |-> recs[i].species])
      [] key = "TissueType" ->
            collect(<<>>, [i \in 1..Len(recs) |-> recs[i].tissue_type])

(***************************************************************************)
(* Client: the rate-limited, retrying client.                              *)
(***************************************************************************)
None == "none"

\* Duration::as_secs: whole seconds, the rest dropped.
as_secs(d) == d \div TicksPerSec

\* Duration::from_secs
from_secs(s) == s * TicksPerSec

\* Client::new
Client_new(interval, retry) ==
    [interval_time |-> interval, max_retry |-> retry, last_fetch_time |-> now]

\* The test of _get before it issues the request: whether it sleeps first.
must_sleep_always(t, last, interval) == TRUE

must_sleep(t, last, interval) == as_secs(t - last) < interval

\* The range of get's loop, with max_retry included.
in_range_inclusive(i, retry) == i <= retry

\* for _ in 0..self.max_retry: whether iteration i (from 0) runs.
in_range(i, retry) == i < retry

\* What the remote holds for a url: its content in version v.
Body(url, v) == [url |-> url, v |-> v]

NoBody == [url |-> <<>>, v |-> 0]

\* What a request ends in: a transport error (reqwest::get fails), a
\* response with another status than OK, a response with status OK.
Outcomes == {"transport", "bad_status", "ok"}

\* Ok(resp) of get.
Ok(url, body) == [ok |-> TRUE, url |-> url, body |-> body, times |-> 0]

\* The Err of get: "Error {max_retry} times when fetching {url}".
FetchExhausted(url, retry) ==
    [ok |-> FALSE, url |-> url, body |-> NoBody, times |-> retry]

NoRet == [ok |-> FALSE, url |-> <<>>, body |-> NoBody, times |-> 0]

\* client.get(url) is called by who.
CallGet(who, url) ==
    /\ get_pc' = "loop"
    /\ get_url' = url
    /\ tries' = 0
    /\ caller' = who
    /\ sent' = 0
    /\ attempts' = <<>>
    /\ UNCHANGED <<get_ret, last_req>>

\* An iteration of get's loop: _get reads the clock, sleeps the whole
\* interval when the last fetch is less than the interval ago, and issues
\* the request, reqwest::get(url).
GetAttempt ==
    /\ get_pc = "loop"
    /\ in_range(tries, max_retry)
    /\ now' = IF must_sleep(now, last_fetch_time, interval_time)
              THEN now + from_secs(interval_time)
              ELSE now
    /\ sent' = sent + 1
    /\ last_req' = now'
    /\ get_pc' = "wait"
    /\ UNCHANGED <<storeVars, clientVars, get_url, tries, get_ret, caller,
                   calls, attempts, cacheVars, fetchVars>>

\* The request ends. With status OK _get sets last_fetch_time and get
\* returns the response; otherwise get prints the error and loops.
GetResponse(outcome, v) ==
    /\ get_pc = "wait"
    /\ attempts' = Append(attempts,
                          IF outcome = "ok"
                          THEN [ok |-> TRUE, body |-> Body(get_url, v)]
                          ELSE [ok |-> FALSE, body |-> NoBody])
    /\ IF outcome = "ok"
       THEN /\ last_fetch_time' = now
            /\ get_ret' = Ok(get_url, Body(get_url, v))
            /\ get_pc' = "ret"
            /\ tries' = tries
       ELSE /\ tries' = tries + 1
            /\ get_pc' = "loop"
            /\ UNCHANGED <<last_fetch_time, get_ret>>
    /\ UNCHANGED <<storeVars, now, interval_time, max_retry, get_url, caller,
                   calls, sent, last_req, cacheVars, fetchVars>>

\* The loop is over without a response with status OK: get returns its Err.
GetExhausted ==
    /\ get_pc = "loop"
    /\ ~in_range(tries, max_retry)
    /\ get_ret' = FetchExhausted(get_url, max_retry)
    /\ get_pc' = "ret"
    /\ UNCHANGED <<storeVars, now, clientVars, get_url, tries, caller, calls,
                   netVars, cacheVars, fetchVars>>

\* Time passes: between two calls, and while a request is under way (get's
\* loop itself takes no time).
Tick ==
    /\ now < MaxTime
    /\ get_pc # "loop"
    /\ now' = now + 1
    /\ UNCHANGED <<storeVars, clientVars, getVars, calls, netVars, cacheVars,
                   fetchVars>>

ClientStep ==
    \/ GetAttempt
    \/ \E outcome \in Outcomes, v \in 1..MaxVersion : GetResponse(outcome, v)
    \/ GetExhausted

(***************************************************************************)
(* use_cache: the response cache in the directory .onekp_cache. The        *)
(* directory is taken to be readable and writable: creating, reading and   *)
(* writing its files succeed.                                              *)
(***************************************************************************)
\* str::split(c): the pieces between the c's, empty ones included.
RECURSIVE split(_, _)
split(s, c) ==
    IF \E i \in 1..Len(s) : s[i] = c
    THEN LET i == CHOOSE k \in 1..Len(s) :
                     s[k] = c /\ \A j \in 1..(k - 1) : s[j] # c
         IN  <<SubSeq(s, 1, i - 1)>> \o split(SubSeq(s, i + 1, Len(s)), c)
    ELSE <<s>>

IndexHtml == <<"i", "n", "d", "e", "x", ".", "h", "t", "m", "l">>

\* The name of the cache file of a url: its last piece, or index.html.
cache_file_name(url) ==
    LET pieces   == split(url, "/")
        filename == pieces[Len(pieces)]
    IN  IF filename = <<>> THEN IndexHtml ELSE filename

\* The age from which a cache file is refetched, in seconds.
CACHE_SECS == 3600

\* is_cache_update_required that answers true for every file there is.
is_cache_update_required_always(dir, path, t) ==
    IF path \notin DOMAIN dir
    THEN [ok |-> FALSE, val |-> FALSE]
    ELSE [ok |-> TRUE, val |-> TRUE]

\* is_cache_update_required: Err when metadata(path) fails (no such file),
\* else whether the file was modified CACHE_SECS or longer ago.
is_cache_update_required(dir, path, t) ==
    IF path \notin DOMAIN dir
    THEN [ok |-> FALSE, val |-> FALSE]
    ELSE [ok |-> TRUE, val |-> t - dir[path].mtime >= from_secs(CACHE_SECS)]

\* Response::text: the body as a text, here a sequence of pieces.
text(resp) == <<resp.body>>

\* A file opened for appending, the text written after what it holds.
write_file_appending(dir, path, txt, t) ==
    LET old == IF path \in DOMAIN dir THEN dir[path].content ELSE <<>>
    IN  (path :> [content |-> old \o txt, mtime |-> t]) @@ dir

\* File::create(path) and the write of txt: the file is created or
\* truncated, txt is written to it, its modification time is t.
write_file(dir, path, txt, t) ==
    (path :> [content |-> txt, mtime |-> t]) @@ dir

NoText == <<>>

NoCacheCall == [ok |-> FALSE, text |-> NoText]

\* use_cache(url, client) up to its return from the cache or its call of
\* client.get: the directory is created if need be, the file's age tested.
UseCache(url) ==
    /\ uc_pc \in {"idle", "ret"}
    /\ get_pc \in {"idle", "ret"}
    /\ calls < MaxCalls
    /\ calls' = calls + 1
    /\ uc_url' = url
    /\ cache_dir' = TRUE
    /\ uc_pre' = [cache |-> cache, last_fetch_time |-> last_fetch_time,
                  now |-> now, net |-> netVars]
    /\ LET path == cache_file_name(url)
           req  == is_cache_update_required(cache, path, now)
       IN  IF req.ok /\ ~req.val
           THEN /\ uc_ret' = [ok |-> TRUE, text |-> cache[path].content]
                /\ uc_pc' = "ret"
                /\ uc_gets' = 0
                /\ UNCHANGED <<getVars, netVars>>
           ELSE /\ CallGet("use_cache", url)
                /\ uc_pc' = "get"
                /\ uc_gets' = 1
                /\ UNCHANGED uc_ret
    /\ UNCHANGED <<storeVars, now, clientVars, cache, fetchVars>>

\* use_cache with the file created before the call of client.get, as
\* fetch_and_save has it: an Err of get leaves the file created and empty.
UseCacheResume_creates_first ==
    /\ uc_pc = "get"
    /\ get_pc = "ret"
    /\ caller = "use_cache"
    /\ IF get_ret.ok
       THEN /\ cache' = write_file(cache, cache_file_name(uc_url),
                                   text(get_ret), now)
            /\ uc_ret' = [ok |-> TRUE, text |-> text(get_ret)]
       ELSE /\ cache' = write_file(cache, cache_file_name(uc_url), <<>>, now)
            /\ uc_ret' = NoCacheCall
    /\ uc_pc' = "ret"
    /\ UNCHANGED <<storeVars, now, clientVars, getVars, calls, netVars,
                   cache_dir, uc_url, uc_gets, uc_pre, fetchVars>>

\* use_cache after client.get returned: its error is returned, or the text
\* of the response is written to the cache file and returned.
UseCacheResume ==
    /\ uc_pc = "get"
    /\ get_pc = "ret"
    /\ caller = "use_cache"
    /\ IF get_ret.ok
       THEN /\ cache' = write_file(cache, cache_file_name(uc_url),
                                   text(get_ret), now)
            /\ uc_ret' = [ok |-> TRUE, text |-> text(get_ret)]
       ELSE /\ uc_ret' = NoCacheCall
            /\ UNCHANGED cache
    /\ uc_pc' = "ret"
    /\ UNCHANGED <<storeVars, now, clientVars, getVars, calls, netVars,
                   cache_dir, uc_url, uc_gets, uc_pre, fetchVars>>

\* A long time passes between two calls, once: an hour, or a tick less.
Wait(d) ==
    /\ uc_pc = "ret"
    /\ now < from_secs(CACHE_SECS) - 1
    /\ now' = now + d
    /\ UNCHANGED <<storeVars, clientVars, getVars, calls, netVars, cacheVars,
                   fetchVars>>

(***************************************************************************)
(* Inputs of the store's operations.                                       *)
(***************************************************************************)
TableIndexes ==
    { << <<"A", "B", "/">>, <<"A", "C", "/">> >>,
      << <<"A", "C", "/", "/">>, NoHref, <<"A", "B">> >>,
      << <<"/">>, <<"B", "x">> >>,
      << >> }

Rows ==
    { << <<"A">>,      <<"c">>, <<"o">>, <<"f">>, <<"s">>, <<"t">> >>,
      << <<"A", "B">>, <<"C">>, <<"o">>, <<"f">>, <<"s">>, <<"t">> >>,
      << <<"A", "B">>, <<"c">>, <<"o">>, <<"F">>, <<"S">>, <<"T">>, <<"extra">> >>,
      << <<"B">>,      <<"c">>, <<"O">>, <<"f">>, <<"s">>, <<"t">> >>,
      << <<"B">>,      <<"C">>, <<"o">>, <<"F">> >> \o
         << <<"N", "o", " ", "d", "a", "t", "a">>,
            <<"N", "o", " ", "d", "a", "t", "a">> >> }

ValueLists ==
    { << >>,
      << <<"A", "B">> >>,
      << <<"c">>, <<"A">> >>,
      << <<"o">>, <<"o">>, <<"F">> >>,
      << <<"z">> >> }

NoCall == [op |-> "none", ok |-> TRUE, attrs |-> <<>>, key |-> "Id",
           values |-> <<>>, out |-> <<>>, pre |-> <<>>]

\* The urls of the requests.
Urls == { <<"r", "/", "t">>, <<"q", "/", "t">>, <<"r", "/", "a", "/">> }

NoStore ==
    /\ links = <<>>
    /\ records = <<>>
    /\ store_ret = NoCall

\* let mut client = Client::new(interval, retry), nothing fetched yet.
InitClient(interval, retry) ==
    /\ now = 0
    /\ interval_time = Client_new(interval, retry).interval_time
    /\ max_retry = Client_new(interval, retry).max_retry
    /\ last_fetch_time = Client_new(interval, retry).last_fetch_time
    /\ get_pc = "idle"
    /\ get_url = <<>>
    /\ tries = 0
    /\ get_ret = NoRet
    /\ caller = None
    /\ calls = 0
    /\ sent = 0
    /\ attempts = <<>>
    /\ last_req = -1
    /\ cache_dir = FALSE
    /\ cache = <<>>
    /\ uc_pc = "idle"
    /\ uc_url = <<>>
    /\ uc_ret = NoCacheCall
    /\ uc_gets = 0
    /\ uc_pre = [cache |-> <<>>, last_fetch_time |-> 0, now |-> 0,
                 net |-> <<0, <<>>, -1>>]

\* main not run.
NoMain ==
    /\ tsv = <<>>
    /\ line_i = 1
    /\ main_pc = "none"
    /\ sequence_type = "Both"
    /\ selected = <<>>
    /\ rec_i = 1
    /\ file_i = 1
    /\ target = <<>>
    /\ success_ids = <<>>
    /\ err_ids = <<>>
    /\ outcomes = <<>>
    /\ saved = <<>>

InitStore ==
    /\ \E t \in TableIndexes :
          /\ links = new(t).links
          /\ records = new(t).records
    /\ store_ret = NoCall
    /\ InitClient(0, 0)
    /\ NoMain

\* onekp.push_record(attrs)
AddRecord(attrs) ==
    /\ Len(records) < MaxRecords
    /\ LET r == push_record(links, records, attrs)
       IN  /\ records' = r.records
           /\ store_ret' = [NoCall EXCEPT !.op = "push_record", !.ok = r.ok,
                                          !.attrs = attrs, !.pre = records]
    /\ UNCHANGED <<links, now, clientVars, getVars, calls, netVars, cacheVars,
                   fetchVars>>

\* onekp.filter(key, values)
Filter(key, values) ==
    /\ store_ret' = [NoCall EXCEPT !.op = "filter", !.key = key,
                                   !.values = values, !.pre = records,
                                   !.out = filter(records, key, values)]
    /\ UNCHANGED <<links, records, now, clientVars, getVars, calls, netVars,
                   cacheVars, fetchVars>>

\* Commands::Show { key }
Show(key) ==
    /\ store_ret' = [NoCall EXCEPT !.op = "show", !.key = key,
                                   !.pre = records,
                                   !.out = distinct_values(records, key)]
    /\ UNCHANGED <<links, records, now, clientVars, getVars, calls, netVars,
                   cacheVars, fetchVars>>

NextStore ==
    \/ \E attrs \in Rows : AddRecord(attrs)
    \/ \E key \in OneKpKey, values \in ValueLists : Filter(key, values)
    \/ \E key \in OneKpKey : Show(key)

SpecStore == InitStore /\ [][NextStore]_vars

(***************************************************************************)
(* The client on its own: a caller that calls get, one call after another. *)
(***************************************************************************)
InitGet ==
    /\ NoStore
    /\ NoMain
    /\ \E interval \in 0..MaxInterval, retry \in 0..MaxRetry :
          InitClient(interval, retry)

\* client.get(url).await
Get(url) ==
    /\ get_pc \in {"idle", "ret"}
    /\ calls < MaxCalls
    /\ calls' = calls + 1
    /\ CallGet("caller", url)
    /\ UNCHANGED <<storeVars, now, clientVars, cacheVars, fetchVars>>

NextClient ==
    \/ \E url \in Urls : Get(url)
    \/ ClientStep
    \/ Tick

SpecClient == InitGet /\ [][NextClient]_vars

(***************************************************************************)
(* The cache and its client: a caller that calls use_cache, one call after *)
(* another, while time passes.                                             *)
(***************************************************************************)
NextCache ==
    \/ \E url \in Urls : UseCache(url)
    \/ UseCacheResume
    \/ ClientStep
    \/ Tick
    \/ \E d \in {from_secs(CACHE_SECS) - 1, from_secs(CACHE_SECS)} : Wait(d)

SpecCache == InitGet /\ [][NextCache]_vars

(***************************************************************************)
(* main with the Fetch command, from the ingestion of the table on: the    *)
(* two documents are loaded, the client is the one main made.              *)
(***************************************************************************)
INTERVAL == 3
MAX_RETRY == 5

NoData == <<"N", "o", " ", "d", "a", "t", "a">>

\* while attrs.len() < 6 { attrs.push("No data") }
RECURSIVE pad(_)
pad(attrs) == IF Len(attrs) < 6 THEN pad(Append(attrs, NoData)) ELSE attrs

Nucleotides == <<"nucleotides.fa.gz">>
Protein == <<"protein.fa.gz">>

\* SequenceType::to_filenames
to_filenames(st) ==
    CASE st = "Nucleotide" -> <<Nucleotides>>
      [] st = "Protein"    -> <<Protein>>
      [] st = "Both"       -> <<Nucleotides, Protein>>

\* OneKpRecord::to_filename: "{prefix}-{filename}"
to_filename(rec, filename) == rec.prefix \o <<"-">> \o filename

GigaDb ==
    <<"https://ftp.cngb.org/pub/gigadb/pub/10.5524/100001_101000/100627/assemblies/">>

\* OneKpRecord::to_gigadb_url: "{base}{prefix}/{id}-translated-{filename}"
to_gigadb_url(rec, filename) ==
    GigaDb \o rec.prefix \o <<"/">> \o rec.id \o <<"-translated-">> \o filename

\* The body written to the file two times over.
bytes_twice(resp) == <<resp.body, resp.body>>

\* Response::bytes: the body, as the pieces written to a file.
bytes(resp) == <<resp.body>>

\* How a file of a record came out: whether File::create made it, whether
\* client.get returned a response for it, whether the body of the response
\* was read and written to it.
Saved(filename, created, fetched, written) ==
    [suffix |-> filename, created |-> created, fetched |-> fetched,
     written |-> written]

\* The loop over the lines of the table: the next line is padded to six
\* fields and pushed; an Err of push_record ends main.
Ingest ==
    /\ main_pc = "ingest"
    /\ line_i <= Len(tsv)
    /\ LET r == push_record(links, records, pad(tsv[line_i]))
       IN  IF r.ok
           THEN /\ records' = r.records
                /\ line_i' = line_i + 1
                /\ UNCHANGED main_pc
           ELSE /\ main_pc' = "exit"
                /\ UNCHANGED <<records, line_i>>
    /\ UNCHANGED <<links, store_ret, now, clientVars, getVars, calls, netVars,
                   cacheVars, tsv, sequence_type, selected, rec_i, file_i,
                   target, success_ids, err_ids, outcomes, saved>>

\* Commands::Fetch begins: the lists are empty, the records are filtered.
FetchBegin(filter_key, filter_values, st) ==
    /\ main_pc = "ingest"
    /\ line_i > Len(tsv)
    /\ success_ids' = <<>>
    /\ err_ids' = <<>>
    /\ selected' = filter(records, filter_key, filter_values)
    /\ sequence_type' = st
    /\ rec_i' = 1
    /\ main_pc' = "rec"
    /\ UNCHANGED <<storeVars, now, clientVars, getVars, calls, netVars,
                   cacheVars, tsv, line_i, file_i, target, outcomes, saved>>

\* The loop over the filtered records: fetch_and_save is called for the
\* next one, or the loop is over and the two lists are printed.
NextRecord ==
    /\ main_pc = "rec"
    /\ IF rec_i <= Len(selected)
       THEN /\ file_i' = 1
            /\ saved' = <<>>
            /\ main_pc' = "file"
       ELSE /\ main_pc' = "done"
            /\ UNCHANGED <<file_i, saved>>
    /\ UNCHANGED <<storeVars, now, clientVars, getVars, calls, netVars,
                   cacheVars, tsv, line_i, sequence_type, selected, rec_i,
                   target, success_ids, err_ids, outcomes>>

\* fetch_and_save returned Ok(()): the arm of main's match.
RecordOk ==
    /\ success_ids' = Append(success_ids, selected[rec_i].id)
    /\ outcomes' = Append(outcomes, [rec |-> rec_i, ok |-> TRUE])
    /\ rec_i' = rec_i + 1
    /\ main_pc' = "rec"
    /\ UNCHANGED err_ids

\* The Err arm with the loop over the records left at the first failure.
RecordErr_aborts ==
    /\ err_ids' = Append(err_ids, selected[rec_i].id)
    /\ outcomes' = Append(outcomes, [rec |-> rec_i, ok |-> FALSE])
    /\ rec_i' = Len(selected) + 1
    /\ main_pc' = "rec"
    /\ UNCHANGED success_ids

\* The Err arm with the identifier pushed to the list of the other arm.
RecordErr_pushes_success ==
    /\ success_ids' = Append(success_ids, selected[rec_i].id)
    /\ outcomes' = Append(outcomes, [rec |-> rec_i, ok |-> FALSE])
    /\ rec_i' = rec_i + 1
    /\ main_pc' = "rec"
    /\ UNCHANGED err_ids

\* fetch_and_save returned Err(err): the arm of main's match.
RecordErr ==
    /\ err_ids' = Append(err_ids, selected[rec_i].id)
    /\ outcomes' = Append(outcomes, [rec |-> rec_i, ok |-> FALSE])
    /\ rec_i' = rec_i + 1
    /\ main_pc' = "rec"
    /\ UNCHANGED success_ids

\* fetch_and_save at the head of its loop: with no file name left it
\* returns Ok(()); else File::create(path) fails, and it returns the Err, or
\* creates or truncates the file, and client.get is called.
NextFile(created) ==
    /\ main_pc = "file"
    /\ LET names == to_filenames(sequence_type)
           rec   == selected[rec_i]
       IN  IF file_i > Len(names)
           THEN /\ RecordOk
                /\ UNCHANGED <<target, getVars, netVars, saved>>
           ELSE IF ~created
           THEN /\ RecordErr
                /\ saved' = Append(saved, Saved(names[file_i], FALSE, FALSE, FALSE))
                /\ UNCHANGED <<target, getVars, netVars>>
           ELSE /\ target' = (to_filename(rec, names[file_i]) :> <<>>) @@ target
                /\ CallGet("fetch_and_save", to_gigadb_url(rec, names[file_i]))
                /\ main_pc' = "get"
                /\ UNCHANGED <<rec_i, success_ids, err_ids, outcomes, saved>>
    /\ UNCHANGED <<storeVars, now, clientVars, calls, cacheVars, tsv, line_i,
                   sequence_type, selected, file_i>>

\* fetch_and_save with an Err of a file dropped instead of returned: the
\* loop goes on with the next file name.
FileFetched_goes_on(written) ==
    /\ main_pc = "get"
    /\ get_pc = "ret"
    /\ caller = "fetch_and_save"
    /\ get_ret.ok \/ ~written
    /\ LET names == to_filenames(sequence_type)
           rec   == selected[rec_i]
           path  == to_filename(rec, names[file_i])
       IN  /\ target' = IF get_ret.ok /\ written
                        THEN (path :> (target[path] \o bytes(get_ret))) @@ target
                        ELSE target
           /\ file_i' = file_i + 1
           /\ main_pc' = "file"
           /\ UNCHANGED <<rec_i, success_ids, err_ids, outcomes>>
    /\ saved' = Append(saved, Saved(to_filenames(sequence_type)[file_i], TRUE,
                                    get_ret.ok, written))
    /\ get_pc' = "idle"
    /\ UNCHANGED <<storeVars, now, clientVars, get_url, tries, get_ret,
                   caller, calls, netVars, cacheVars, tsv, line_i,
                   sequence_type, selected>>

\* fetch_and_save after client.get returned: its Err is returned, or the
\* bytes of the response are read and written to the file and the loop goes
\* on, or reading or writing them fails (written is false) and that Err is
\* returned, nothing of the body having reached the file.
FileFetched(written) ==
    /\ main_pc = "get"
    /\ get_pc = "ret"
    /\ caller = "fetch_and_save"
    /\ get_ret.ok \/ ~written
    /\ LET names == to_filenames(sequence_type)
           rec   == selected[rec_i]
           path  == to_filename(rec, names[file_i])
       IN  IF get_ret.ok /\ written
           THEN /\ target' = (path :> (target[path] \o bytes(get_ret))) @@ target
                /\ file_i' = file_i + 1
                /\ main_pc' = "file"
                /\ UNCHANGED <<rec_i, success_ids, err_ids, outcomes>>
           ELSE /\ RecordErr
                /\ UNCHANGED <<target, file_i>>
    /\ saved' = Append(saved, Saved(to_filenames(sequence_type)[file_i], TRUE,
                                    get_ret.ok, written))
    /\ get_pc' = "idle"
    /\ UNCHANGED <<storeVars, now, clientVars, get_url, tries, get_ret,
                   caller, calls, netVars, cacheVars, tsv, line_i,
                   sequence_type, selected>>

\* The listing and the lines of the table main is run on.
FetchTable == << <<"A", "B", "/">>, <<"A", "C", "/">> >>

FetchLines ==
    { << <<"A">>, <<"c">> >>,
      << <<"A", "B">>, <<"C">>, <<"o">>, <<"f">>, <<"S">>, <<"t">> >>,
      << <<"B">>, <<"c">>, <<"o">>, <<"f">>, <<"s">>, <<"t">> >> }

\* The tables of up to n lines.
RECURSIVE Tables(_)
Tables(n) ==
    IF n = 0 THEN {<<>>}
    ELSE Tables(n - 1)
           \cup {Append(t, l) : t \in {u \in Tables(n - 1) : Len(u) = n - 1},
                                l \in FetchLines}

\* The filters of the command line.
FetchFilters ==
    { <<"Id", << <<"A">>, <<"A", "B">> >> >>,
      <<"Clade", << <<"c">> >> >> }

InitFetch ==
    /\ links = new(FetchTable).links
    /\ records = new(FetchTable).records
    /\ store_ret = NoCall
    /\ InitClient(INTERVAL, MAX_RETRY)
    /\ tsv \in Tables(MaxLines)
    /\ line_i = 1
    /\ main_pc = "ingest"
    /\ sequence_type = "Both"
    /\ selected = <<>>
    /\ rec_i = 1
    /\ file_i = 1
    /\ target = <<>>
    /\ success_ids = <<>>
    /\ err_ids = <<>>
    /\ outcomes = <<>>
    /\ saved = <<>>

\* A step of main.
MainStep ==
    \/ Ingest
    \/ \E f \in FetchFilters, st \in {"Nucleotide", "Protein", "Both"} :
          FetchBegin(f[1], f[2], st)
    \/ NextRecord
    \/ \E created \in BOOLEAN : NextFile(created)
    \/ \E written \in BOOLEAN : FileFetched(written)
    \/ ClientStep

NextFetch ==
    \/ MainStep
    \/ Tick

SpecFetch == InitFetch /\ [][NextFetch]_vars

\* main runs on, and every request ends.
FairFetch == SpecFetch /\ WF_vars(MainStep)

(***************************************************************************)
(* The store's claims.                                                     *)
(***************************************************************************)
\* The indexes of the directory entries that start with id.
Matches(id) == {i \in 1..Len(links) : starts_with(links[i], id)}

\* The record a row must be stored as, but for its prefix.
SameFields(r, attrs) ==
    /\ r.id = attrs[1]
    /\ r.clade = attrs[2]
    /\ r.order = attrs[3]
    /\ r.family = attrs[4]
    /\ r.species = attrs[5]
    /\ r.tissue_type = attrs[6]

\* C5: when no directory entry starts with the row's identifier, add_record
\* fails (PrefixNotFound) and the store's records are exactly those before
\* the call: the same count and the same records.
C5_NotFoundLeavesStore ==
    (store_ret.op = "push_record" /\ Matches(store_ret.attrs[1]) = {})
        => /\ ~store_ret.ok
           /\ Len(records) = Len(store_ret.pre)
           /\ records = store_ret.pre

\* C5's case: a failed add_record on a store that already holds records.
C5_Witness ==
    /\ store_ret.op = "push_record"
    /\ Matches(store_ret.attrs[1]) = {}
    /\ links # <<>>
    /\ Len(records) >= 2

\* C6: after add_record of a 6-field row whose identifier has a matching
\* directory entry, filter(Id, {identifier}) returns exactly one record, and
\* its six fields are the row's.
C6_AddThenFilterOne ==
    (/\ store_ret.op = "push_record"
     /\ Len(store_ret.attrs) = 6
     /\ Matches(store_ret.attrs[1]) # {})
        => LET out == filter(records, "Id", <<store_ret.attrs[1]>>)
           IN  /\ Len(out) = 1
               /\ SameFields(out[1], store_ret.attrs)

\* C7: every stored record has a non-empty prefix, which is the one and only
\* directory entry that starts with its identifier, and add_record fails
\* when no entry or more than one entry starts with the identifier.
C7_UniquePrefix ==
    /\ \A k \in 1..Len(records) :
          /\ records[k].prefix # <<>>
          /\ Cardinality(Matches(records[k].id)) = 1
          /\ \A i \in Matches(records[k].id) : records[k].prefix = links[i]
    /\ (store_ret.op = "push_record"
            /\ Cardinality(Matches(store_ret.attrs[1])) # 1)
          => ~store_ret.ok

\* The field of a record that a key names.
FieldOf(r, key) ==
    CASE key = "Id"         -> r.id
      [] key = "Clade"      -> r.clade
      [] key = "Order"      -> r.order
      [] key = "Family"     -> r.family
      [] key = "Species"    -> r.species
      [] key = "TissueType" -> r.tissue_type

\* The k-th smallest member of a set of indexes.
Kth(S, k) == CHOOSE i \in S : Cardinality({j \in S : j < i}) = k - 1

\* C8: filter returns exactly the stored records whose selected field equals
\* some member of values, in store order; nothing when values is disjoint
\* from the field's stored values; and the store's records are unchanged.
C8_FilterExact ==
    store_ret.op = "filter"
        => LET S   == {i \in 1..Len(store_ret.pre) :
                         \E v \in Range(store_ret.values) :
                            v = FieldOf(store_ret.pre[i], store_ret.key)}
               out == store_ret.out
           IN  /\ Len(out) = Cardinality(S)
               /\ \A k \in 1..Len(out) : out[k] = store_ret.pre[Kth(S, k)]
               /\ (Range(store_ret.values)
                      \cap {FieldOf(store_ret.pre[i], store_ret.key) :
                              i \in 1..Len(store_ret.pre)} = {})
                    => out = <<>>
               /\ records = store_ret.pre

\* C8's case: a filter that keeps several records and drops others, on a
\* field where a stored value differs from a requested one only in case.
C8_Witness ==
    /\ store_ret.op = "filter"
    /\ store_ret.key = "Clade"
    /\ Len(store_ret.out) = 2
    /\ Len(records) = 3
    /\ \E i \in 1..Len(records) : records[i].clade = <<"C">>
    /\ <<"c">> \in Range(store_ret.values)

(***************************************************************************)
(* The client's claims.                                                    *)
(***************************************************************************)
\* The attempts of this call of get that ended with status OK.
Successes == {i \in 1..Len(attempts) : attempts[i].ok}

\* C1: one call of get issues its requests one at a time, never more than
\* max_retry of them, and none after a successful one. When it returns: if
\* attempt k is the first success, it returns that attempt's body after
\* exactly k requests; if there is none, it returns the error that names
\* the url and max_retry after exactly max_retry requests.
C1_GetRetries ==
    /\ sent <= max_retry
    /\ sent - Len(attempts) \in {0, 1}
    /\ \A i \in Successes : i = Len(attempts)
    /\ get_pc = "ret"
          => IF Successes # {}
             THEN \E k \in Successes :
                    /\ \A j \in Successes : k <= j
                    /\ k <= max_retry
                    /\ sent = k
                    /\ get_ret.ok
                    /\ get_ret.body = attempts[k].body
             ELSE /\ ~get_ret.ok
                  /\ get_ret.times = max_retry
                  /\ get_ret.url = get_url
                  /\ sent = max_retry
                  /\ Len(attempts) = max_retry

\* C1's case: a get that succeeds at its last allowed attempt, after
\* max_retry - 1 failures of both kinds.
C1_Witness ==
    /\ get_pc = "ret"
    /\ get_ret.ok
    /\ max_retry = 2
    /\ sent = 2
    /\ ~attempts[1].ok
    /\ calls = 2

\* C2: every request but the first is issued at least interval_time seconds
\* after the request before it, a retry after a failed attempt included.
C2_MinInterval ==
    [][(sent' = sent + 1 /\ last_req >= 0)
          => now' - last_req >= interval_time * TicksPerSec]_vars

(***************************************************************************)
(* The cache's claims.                                                     *)
(***************************************************************************)
\* The cache file of the url of the call, and its age at the call, in ticks.
CalledFile == cache_file_name(uc_url)

HadFile == CalledFile \in DOMAIN uc_pre.cache

AgeAtCall == uc_pre.now - uc_pre.cache[CalledFile].mtime

\* C3: when use_cache finds a cache file for the url that was written less
\* than an hour before, it returns the file's content, the client is not
\* called, no request is issued, last_fetch_time stays, and no cache file
\* is written.
C3_FreshServedFromCache ==
    (/\ uc_pc = "ret"
     /\ HadFile
     /\ AgeAtCall < CACHE_SECS * TicksPerSec)
        => /\ uc_ret.ok
           /\ uc_ret.text = uc_pre.cache[CalledFile].content
           /\ uc_gets = 0
           /\ netVars = uc_pre.net
           /\ last_fetch_time = uc_pre.last_fetch_time
           /\ cache = uc_pre.cache

\* C3's case: a call that finds a file one tick short of an hour old.
C3_Witness ==
    /\ uc_pc = "ret"
    /\ HadFile
    /\ AgeAtCall = CACHE_SECS * TicksPerSec - 1
    /\ calls = 2

\* C4: when the cache file of the url is absent or older than an hour,
\* use_cache calls client.get exactly once; when that call succeeds, the
\* cache file then holds the fetched body and nothing else, and that body
\* is what use_cache returns.
C4_StaleRefetched ==
    (/\ uc_pc \in {"get", "ret"}
     /\ ~HadFile \/ AgeAtCall > CACHE_SECS * TicksPerSec)
        => /\ uc_gets = 1
           /\ caller = "use_cache"
           /\ get_url = uc_url
           /\ (uc_pc = "ret" /\ get_ret.ok)
                 => /\ get_ret.body = attempts[Len(attempts)].body
                    /\ get_ret.body.url = uc_url
                    /\ CalledFile \in DOMAIN cache
                    /\ cache[CalledFile].content = <<get_ret.body>>
                    /\ uc_ret.ok
                    /\ uc_ret.text = <<get_ret.body>>

\* C4's case: a file older than an hour is replaced by another content.
C4_Witness ==
    /\ uc_pc = "ret"
    /\ HadFile
    /\ AgeAtCall > CACHE_SECS * TicksPerSec
    /\ get_ret.ok
    /\ uc_pre.cache[CalledFile].content # <<get_ret.body>>

(***************************************************************************)
(* The claims on the fetch run.                                            *)
(***************************************************************************)
\* The identifiers of the records among the outcomes that ended as ok says.
IdsOf(ok) ==
    LET sel == SelectSeq(outcomes, LAMBDA o : o.ok = ok)
    IN  [k \in 1..Len(sel) |-> selected[sel[k].rec].id]

Running == main_pc \in {"rec", "file", "get"}

\* What holds of a fetch run at every moment: the records finished so far
\* are the first ones of the selection, each once and in order, each either
\* in success_ids or in err_ids, and the run is over only when every
\* selected record is finished.
RunInOrder ==
    /\ \A k \in 1..Len(outcomes) : outcomes[k].rec = k
    /\ Len(outcomes) <= Len(selected)
    /\ (Running \/ main_pc = "done") => rec_i = Len(outcomes) + 1
    /\ success_ids = IdsOf(TRUE)
    /\ err_ids = IdsOf(FALSE)
    /\ Len(success_ids) + Len(err_ids) = Len(outcomes)
    /\ main_pc = "done" => Len(outcomes) = Len(selected)

\* C9: a fetch run ends, with the two lists printed, and then every selected
\* record was processed exactly once, in order, and is in exactly one of the
\* lists of succeeded and failed identifiers; a record that failed (the
\* retries exhausted, or the file not created) does not stop the run.
C9_RunCompletes ==
    /\ []RunInOrder
    /\ (Running ~> main_pc = "done")

\* C9's case: a run over two records that both failed, the first for its
\* file, the second for its requests, and that is over.
C9_Witness ==
    /\ main_pc = "done"
    /\ Len(selected) = 2
    /\ err_ids = <<selected[1].id, selected[2].id>>
    /\ success_ids = <<>>
    /\ target # <<>>
    /\ \A n \in DOMAIN target : target[n] = <<>>
    /\ sent = MAX_RETRY

\* C10: at the end of a fetch run no identifier is both in the list of
\* succeeded and in the list of failed identifiers.
C10_Disjoint ==
    main_pc = "done" => Range(success_ids) \cap Range(err_ids) = {}

\* The file names of the suffixes selected by the command line.
Suffixes == 1..Len(to_filenames(sequence_type))

\* The remote bodies of the file of selected record k and suffix number j.
BodiesFor(k, j) ==
    {[url |-> GigaDb \o selected[k].prefix \o <<"/">> \o selected[k].id
                 \o <<"-translated-">> \o to_filenames(sequence_type)[j],
      v |-> v] : v \in 1..MaxVersion}

\* The selected records and suffixes that name the file n of the target.
NamedBy(n) ==
    {p \in (1..Len(selected)) \X Suffixes :
        n = selected[p[1]].prefix \o <<"-">>
              \o to_filenames(sequence_type)[p[2]]}

AllDownloaded ==
    /\ Len(saved) = Len(to_filenames(sequence_type))
    /\ \A j \in 1..Len(saved) :
          saved[j].created /\ saved[j].fetched /\ saved[j].written

\* C12: a record is reported as succeeded exactly when every one of its
\* selected suffix downloads succeeded, and as failed as soon as one of
\* them failed; a record that is finished is reported in one of the lists.
C12_SucceededIffAll ==
    [][/\ success_ids' # success_ids
            => /\ success_ids' = Append(success_ids, selected[rec_i].id)
               /\ err_ids' = err_ids
               /\ AllDownloaded'
       /\ err_ids' # err_ids
            => /\ err_ids' = Append(err_ids, selected[rec_i].id)
               /\ success_ids' = success_ids
               /\ ~AllDownloaded'
               /\ saved' # <<>>
               /\ ~saved'[Len(saved')].written
       /\ (main_pc \in {"file", "get"} /\ main_pc' = "rec")
            => Len(success_ids') + Len(err_ids')
                  = Len(success_ids) + Len(err_ids) + 1]_vars

\* C12's case: a run is over in which one record succeeded with both of its
\* suffixes and the last one failed at its second suffix, whose response
\* came but was not written, after its first suffix was downloaded.
C12_Witness ==
    /\ main_pc = "done"
    /\ sequence_type = "Both"
    /\ Len(success_ids) = 1
    /\ Len(err_ids) = 1
    /\ Len(saved) = 2
    /\ saved[1].written
    /\ saved[2].fetched /\ ~saved[2].written

(***************************************************************************)
(* The claim on the distinct values.                                       *)
(***************************************************************************)
\* a is before b in lexical order: at the first place where they differ a
\* has the lesser byte, or a ends there and b does not.
LexLess(a, b) ==
    \E i \in 1..(Len(b)) :
       /\ \A j \in 1..(i - 1) : j <= Len(a) /\ a[j] = b[j]
       /\ \/ i = Len(a) + 1
          \/ i <= Len(a) /\ byte(a[i]) < byte(b[i])

\* C13: for any stored records and any field key, distinct_values returns a
\* strictly ascending (lexical) sequence, so one without duplicates, that
\* holds exactly the values the field takes across the stored records.
C13_DistinctSorted ==
    store_ret.op = "show"
        => LET out == store_ret.out
           IN  /\ \A i \in 1..(Len(out) - 1) : LexLess(out[i], out[i + 1])
               /\ \A i, j \in 1..Len(out) : i # j => out[i] # out[j]
               /\ Range(out) = {FieldOf(store_ret.pre[i], store_ret.key) :
                                  i \in 1..Len(store_ret.pre)}
               /\ records = store_ret.pre

\* C13's case: three records, two of them with the same value of the field
\* and the third with a value that sorts before it though it came later and
\* differs only in case.
C13_Witness ==
    /\ store_ret.op = "show"
    /\ store_ret.key = "Clade"
    /\ Len(records) = 3
    /\ records[1].clade = <<"c">>
    /\ records[2].clade = <<"c">>
    /\ records[3].clade = <<"C">>
    /\ store_ret.out = << <<"C">>, <<"c">> >>

(***************************************************************************)
(* The claim on the client's sleep.                                        *)
(***************************************************************************)
\* C14: in every attempt the client sleeps before it issues the request
\* exactly when the time since the last successful fetch (since the client
\* was made, when there is none) is less than the interval, and then for
\* the whole interval; otherwise it issues the request without sleeping.
C14_SleepsWholeInterval ==
    [][sent' = sent + 1
          => IF now - last_fetch_time < interval_time * TicksPerSec
             THEN now' = now + interval_time * TicksPerSec
             ELSE now' = now]_vars

\* C14's case: a first attempt made half a second after the client was
\* made slept the whole second and failed, and the second attempt, by then
\* more than the interval after the client was made, was issued at once.
C14_Witness ==
    /\ get_pc = "wait"
    /\ interval_time = 1
    /\ last_fetch_time = 0
    /\ sent = 2
    /\ now = 1 + TicksPerSec
    /\ last_req = now

(***************************************************************************)
(* More claims on the cache.                                               *)
(***************************************************************************)
\* C15: a cache file is stale only once the time since its last write
\* exceeds an hour: a call that finds a file written an hour ago or less,
\* exactly an hour included, is served from the file, with no call of the
\* client and no request.
C15_HourOldStillFresh ==
    (/\ uc_pc \in {"get", "ret"}
     /\ HadFile
     /\ AgeAtCall <= CACHE_SECS * TicksPerSec)
        => /\ uc_gets = 0
           /\ uc_pc = "ret"
           /\ uc_ret.ok
           /\ uc_ret.text = uc_pre.cache[CalledFile].content
           /\ netVars = uc_pre.net

(***************************************************************************)
(* More claims on the store.                                               *)
(***************************************************************************)
\* A link target without its trailing separators.
Stripped(href) ==
    LET k == CHOOSE n \in 0..Len(href) :
                /\ \A j \in (n + 1)..Len(href) : href[j] = "/"
                /\ n > 0 => href[n] # "/"
    IN  SubSeq(href, 1, k)

\* The directory index of a listing: the link targets of its anchors, in
\* document order, each without its trailing separators.
DirectoryIndex(listing) ==
    LET at == {i \in 1..Len(listing) : listing[i] # NoHref}
    IN  [k \in 1..Cardinality(at) |-> Stripped(listing[Kth(at, k)])]

\* C16: when add_record succeeds, the new record's prefix is the first
\* entry, in the order of the directory index, that starts with the record's
\* identifier, the directory index being the listing's link targets in
\* document order with their trailing separators stripped.
C16_FirstMatchWins ==
    /\ \E listing \in TableIndexes : links = DirectoryIndex(listing)
    /\ (store_ret.op = "push_record" /\ store_ret.ok)
          => LET id == store_ret.attrs[1]
                 r  == records[Len(records)]
             IN  /\ Len(records) = Len(store_ret.pre) + 1
                 /\ SubSeq(records, 1, Len(store_ret.pre)) = store_ret.pre
                 /\ r.id = id
                 /\ Matches(id) # {}
                 /\ r.prefix = links[Kth(Matches(id), 1)]

\* C16's case: two entries start with the identifier, and the one that
\* comes first in the listing, which is not the first in lexical order and
\* had two trailing separators, became the prefix.
C16_Witness ==
    /\ store_ret.op = "push_record"
    /\ store_ret.ok
    /\ links = << <<"A", "C">>, <<"A", "B">> >>
    /\ store_ret.attrs[1] = <<"A">>
    /\ records[Len(records)].prefix = <<"A", "C">>

\* C17: record identifiers are unique in the store: after any sequence of
\* add_record calls, those of main's ingestion loop included, no two
\* records of the store have the same identifier.
C17_UniqueIds ==
    \A i, j \in 1..Len(records) : i # j => records[i].id # records[j].id

\* C18: when use_cache has to refetch and client.get fails, its retries
\* exhausted, use_cache returns an error and the cache is as it was: a stale
\* file keeps its content and its modification time, an absent file is not
\* created.
C18_FailedRefetchKeepsCache ==
    /\ uc_pc = "get" => cache = uc_pre.cache
    /\ (uc_pc = "ret" /\ uc_gets = 1 /\ ~get_ret.ok)
          => /\ ~uc_ret.ok
             /\ cache = uc_pre.cache
             /\ HadFile
                  => /\ cache[CalledFile].content
                          = uc_pre.cache[CalledFile].content
                     /\ cache[CalledFile].mtime = uc_pre.cache[CalledFile].mtime
             /\ ~HadFile => CalledFile \notin DOMAIN cache

\* C18's case: a call found a file an hour old or older, every one of the
\* requests of its get failed, and it returned the error.
C18_Witness ==
    /\ uc_pc = "ret"
    /\ uc_gets = 1
    /\ HadFile
    /\ AgeAtCall >= CACHE_SECS * TicksPerSec
    /\ ~get_ret.ok
    /\ max_retry > 1
    /\ sent = max_retry
    /\ ~uc_ret.ok

\* C19: the body use_cache returns for a url is always a body the remote
\* served for that same url, fresh or cached before, never one that was
\* fetched for another url: distinct urls do not share a cache file.
C19_NoSharedEntry ==
    (uc_pc = "ret" /\ uc_ret.ok)
        => /\ uc_ret.text # <<>>
           /\ \A k \in 1..Len(uc_ret.text) : uc_ret.text[k].url = uc_url

\* The download of the last suffix tried for the record at hand failed.
SuffixFailed ==
    /\ saved # <<>>
    /\ ~(/\ saved[Len(saved)].created
         /\ saved[Len(saved)].fetched
         /\ saved[Len(saved)].written)

\* The suffixes tried for the record at hand are the selected ones from the
\* first on, nucleotide before protein, and only the last may have failed.
SuffixesInOrder ==
    /\ Len(saved) <= (IF sequence_type = "Both" THEN 2 ELSE 1)
    /\ \A j \in 1..Len(saved) :
          saved[j].suffix
             = IF sequence_type = "Protein" \/ j = 2
               THEN <<"protein.fa.gz">>
               ELSE <<"nucleotides.fa.gz">>
    /\ \A j \in 1..(Len(saved) - 1) :
          saved[j].created /\ saved[j].fetched /\ saved[j].written

\* C20: within one record the suffixes are processed in the order
\* nucleotide, protein, and once the download of one suffix has failed the
\* suffixes left are skipped: until the next record is begun no request is
\* issued and no file of the target directory is created or truncated.
C20_FailureSkipsRest ==
    /\ []SuffixesInOrder
    /\ [][SuffixFailed
             => /\ saved' = saved \/ saved' = <<>>
                /\ target' = target
                /\ sent' = sent
                /\ get_pc' = get_pc
                /\ get_url' = get_url]_vars

\* C20's case: of two records fetched with both suffixes the first record
\* failed at its nucleotide file, after every allowed request, and the run
\* went on to the second one with no protein file made for the first.
C20_Witness ==
    /\ sequence_type = "Both"
    /\ Len(outcomes) = 1
    /\ ~outcomes[1].ok
    /\ main_pc = "file"
    /\ saved = <<>>
    /\ sent = MAX_RETRY
    /\ DOMAIN target = {selected[1].prefix \o <<"-", "nucleotides.fa.gz">>}
    /\ Len(selected) = 2

=============================================================================
